---- MODULE Spec2Model ----
(***************************************************************************)
(* A model of the EHR system: the hash-chained ledger                      *)
(* (blockchain/logger.py), the EHR validator and repository                *)
(* (utils/helpers.py), the identity store (app.py) and the dashboard       *)
(* handlers that tie them together (gui/dashboard.py).                     *)
(***************************************************************************)
EXTENDS Integers, Sequences, FiniteSets, TLC

VARIABLES
    ledgerKind,   \* what data/ledger.json holds: "missing", "garbage", "object", "array"
    ledger,       \* the entries of the JSON array when ledgerKind = "array"
    now,          \* int(time.time())
    constructed,  \* a BlockchainLogger has been constructed on the file
    ret,          \* outcome of the last completed call
    pc,           \* concurrent log_event: position of each caller
    localBlock,   \* concurrent log_event: the block each caller built, prev_hash read
    localLedger,  \* concurrent log_event: the list each caller loaded
    overlaid,     \* concurrent log_event: another writer wrote into the file a caller holds open
    ehr,          \* data/ehr_files: per user id, whether the folder exists and its files
    vfile,        \* the candidate file handed to the validator
    hasPyPDF2,    \* whether "import PyPDF2" succeeded
    users,        \* AuthSystem.users, the registry in memory
    usersFile,    \* data/users.json
    bio,          \* data/biometric: the user ids that have a folder
    session,      \* AuthSystem.active_session
    label_map,    \* data/biometric/label_map.json: the user ids the face recognizer knows
    capPc,        \* face capture: position inside capture_and_save_face_samples
    camera,       \* face capture: what the webcam does, "closed", "noface" or "working"
    saved_count   \* face capture: samples written so far

ledgerVars == <<ledgerKind, ledger, constructed>>
capVars == <<capPc, camera, saved_count>>
concVars == <<pc, localBlock, localLedger, overlaid, capPc, camera, saved_count>>
appVars == <<ehr, vfile, hasPyPDF2>>
authVars == <<users, usersFile, bio, session, label_map>>
vars == <<ledgerKind, ledger, constructed, now, ret, pc, localBlock, localLedger, overlaid,
          ehr, vfile, hasPyPDF2, users, usersFile, bio, session, label_map,
          capPc, camera, saved_count>>

(***************************************************************************)
(* Bounds of the model.                                                    *)
(***************************************************************************)
MaxLedger == 3      \* longest chain explored
MaxTime == 1        \* the clock runs 0..MaxTime
MaxPairs == 2       \* most key/value pairs of a generated JSON object
MaxWords == 2       \* most words of a generated text
MaxPages == 4       \* most pages of a generated PDF
MaxEvents == 2      \* longest chain the dashboard handlers build
MaxTmp == 1         \* most temporary files the manual editor leaves per user

(***************************************************************************)
(* blockchain/logger.py                                                    *)
(***************************************************************************)
GENESIS == <<"GENESIS">>

\* A value json.dumps cannot serialize (a Path, a set, bytes ...).
NotJson == <<"<object>">>

\* metadata dictionaries: sets of <<key, value>> pairs
NoMeta == {}
FileMeta(p) == {<<"file", p>>}
OutMeta(p) == {<<"out", p>>}

JsonSerializable(metadata) == \A kv \in metadata : kv[2] # NotJson

\* hashlib.sha256(...).hexdigest(), taken to be collision-free
Sha256(s) == <<"sha256", s>>

\* json.dumps(block, sort_keys=True): the keys in sorted order with their values
JsonDumpsSorted(block) ==
    << <<"action", block.action>>, <<"metadata", block.metadata>>,
       <<"prev_hash", block.prev_hash>>, <<"timestamp", block.timestamp>>,
       <<"user_id", block.user_id>> >>

\* a buggy hash that leaves the metadata out of the digest
calculate_hash_no_metadata(block) ==
    Sha256(JsonDumpsSorted([block EXCEPT !.metadata = NoMeta]))

calculate_hash(block) ==
    Sha256(JsonDumpsSorted(block))

\* a buggy read that returns the hash of the first entry
get_last_hash_first(kind, entries) ==
    IF kind = "array" /\ entries # <<>> THEN entries[1].hash ELSE GENESIS

\* _get_last_hash: any failure to read or index the file yields "GENESIS"
get_last_hash(kind, entries) ==
    IF kind = "array" /\ entries # <<>> THEN entries[Len(entries)].hash ELSE GENESIS

\* the block log_event builds before hashing it
\* a buggy block that records the operator instead of the subject
NewBlock_operator(t, user_id, action, metadata, prev) ==
    [timestamp |-> t, user_id |-> "Admin", action |-> action,
     metadata |-> metadata, prev_hash |-> prev]

NewBlock(t, user_id, action, metadata, prev) ==
    [timestamp |-> t, user_id |-> user_id, action |-> action,
     metadata |-> metadata, prev_hash |-> prev]

\* block["hash"] = self._calculate_hash(block)
Hashed(block) ==
    [timestamp |-> block.timestamp, user_id |-> block.user_id,
     action |-> block.action, metadata |-> block.metadata,
     prev_hash |-> block.prev_hash, hash |-> calculate_hash(block)]

\* the exception log_event ends with, "none" when it completes
LogEventError(kind, metadata) ==
    IF ~JsonSerializable(metadata) THEN "TypeError"
    ELSE IF kind = "missing" THEN "FileNotFoundError"
    ELSE IF kind = "garbage" THEN "JSONDecodeError"
    ELSE IF kind = "object" THEN "AttributeError"
    ELSE "none"

\* a buggy append that rewrites the file with the new block only
LogEventEntries_truncating(kind, entries, t, user_id, action, metadata) ==
    IF LogEventError(kind, metadata) = "none"
    THEN <<Hashed(NewBlock(t, user_id, action, metadata, get_last_hash(kind, entries)))>>
    ELSE entries

\* the array log_event leaves in the file
LogEventEntries(kind, entries, t, user_id, action, metadata) ==
    IF LogEventError(kind, metadata) = "none"
    THEN Append(entries,
                Hashed(NewBlock(t, user_id, action, metadata, get_last_hash(kind, entries))))
    ELSE entries

\* log_event as one uninterrupted call
log_event(user_id, action, metadata) ==
    /\ ledger' = LogEventEntries(ledgerKind, ledger, now, user_id, action, metadata)
    /\ UNCHANGED ledgerKind

\* _ensure_ledger: a missing or unparsable file is replaced by an empty array
ensure_ledger ==
    /\ ledgerKind' = IF ledgerKind \in {"missing", "garbage"} THEN "array" ELSE ledgerKind
    /\ ledger' = IF ledgerKind \in {"missing", "garbage"} THEN <<>> ELSE ledger

\* get_user_logs: the entries of one user, in file order
RECURSIVE FilterUser(_, _)
FilterUser(entries, user_id) ==
    IF entries = <<>> THEN <<>>
    ELSE LET rest == FilterUser(Tail(entries), user_id)
         IN IF Head(entries).user_id = user_id THEN <<Head(entries)>> \o rest ELSE rest

\* a buggy reader that returns every entry
get_user_logs_unfiltered(kind, entries, user_id) ==
    IF kind = "array" THEN [exc |-> "none", val |-> entries]
    ELSE IF kind = "missing" THEN [exc |-> "FileNotFoundError", val |-> <<>>]
    ELSE IF kind = "garbage" THEN [exc |-> "JSONDecodeError", val |-> <<>>]
    ELSE [exc |-> "none", val |-> <<>>]

get_user_logs(kind, entries, user_id) ==
    IF kind = "array" THEN [exc |-> "none", val |-> FilterUser(entries, user_id)]
    ELSE IF kind = "missing" THEN [exc |-> "FileNotFoundError", val |-> <<>>]
    ELSE IF kind = "garbage" THEN [exc |-> "JSONDecodeError", val |-> <<>>]
    ELSE [exc |-> "none", val |-> <<>>]

get_all_logs(kind, entries) ==
    IF kind = "array" THEN [exc |-> "none", val |-> entries]
    ELSE IF kind = "missing" THEN [exc |-> "FileNotFoundError", val |-> <<>>]
    ELSE IF kind = "garbage" THEN [exc |-> "JSONDecodeError", val |-> <<>>]
    ELSE [exc |-> "none", val |-> <<>>]

(***************************************************************************)
(* utils/helpers.py: the EHR validator.  Text is a sequence of characters, *)
(* so that lower-casing and substring search are computed, not assumed.    *)
(***************************************************************************)
w_name == <<"n", "a", "m", "e">>
w_address == <<"a", "d", "d", "r", "e", "s", "s">>
w_genotype == <<"g", "e", "n", "o", "t", "y", "p", "e">>
w_bloodgroup == <<"b", "l", "o", "o", "d", "g", "r", "o", "u", "p">>
w_blood_group == <<"b", "l", "o", "o", "d", "_", "g", "r", "o", "u", "p">>
w_blood_group_spaced == <<"b", "l", "o", "o", "d", " ", "g", "r", "o", "u", "p">>
w_dob == <<"d", "o", "b">>
w_medical_history == <<"m", "e", "d", "i", "c", "a", "l", "_", "h", "i", "s", "t", "o", "r", "y">>
w_gender == <<"g", "e", "n", "d", "e", "r">>
w_allergies == <<"a", "l", "l", "e", "r", "g", "i", "e", "s">>
w_Name == <<"N", "a", "m", "e">>
w_surname == <<"s", "u", "r", "n", "a", "m", "e">>
w_note == <<"n", "o", "t", "e">>
w_x == <<"x">>
w_raw_text == <<"_", "r", "a", "w", "_", "t", "e", "x", "t">>
sfx_json == <<".", "j", "s", "o", "n">>
sfx_JSON == <<".", "J", "S", "O", "N">>
sfx_txt == <<".", "t", "x", "t">>
sfx_md == <<".", "m", "d">>
sfx_csv == <<".", "c", "s", "v">>
sfx_pdf == <<".", "p", "d", "f">>
sfx_exe == <<".", "e", "x", "e">>
sfx_none == <<>>

\* str.lower() on the letters the model's texts use
LowerChar(c) ==
    CASE c = "N" -> "n" [] c = "J" -> "j" [] c = "S" -> "s" [] c = "O" -> "o"
      [] c = "A" -> "a"
      [] OTHER -> c

Lower(s) == [i \in 1..Len(s) |-> LowerChar(s[i])]

\* kw in t
IsSubstring(kw, t) ==
    \E i \in 0..(Len(t) - Len(kw)) : \A j \in 1..Len(kw) : t[i + j] = kw[j]

RECURSIVE Concat(_)
Concat(ss) == IF ss = <<>> THEN <<>> ELSE Head(ss) \o Concat(Tail(ss))

\* _EHR_REQUIRED_FIELDS (helpers.py)
EHR_REQUIRED_FIELDS == {w_name, w_address, w_genotype, w_bloodgroup}

\* the number of keywords a text must hold
KeywordThreshold == 2

\* a buggy heuristic that is content with one keyword
text_contains_ehr_keywords_one(text) ==
    Cardinality({kw \in EHR_REQUIRED_FIELDS : IsSubstring(kw, Lower(text))}) >= 1

\* _text_contains_ehr_keywords
text_contains_ehr_keywords(text) ==
    Cardinality({kw \in EHR_REQUIRED_FIELDS : IsSubstring(kw, Lower(text))}) >= KeywordThreshold

(***************************************************************************)
(* Parsed JSON values: a string, an object (a sequence of key/value pairs  *)
(* with distinct keys) or a list.                                          *)
(***************************************************************************)
Str(s) == [t |-> "str", s |-> s, pairs |-> <<>>]
Obj(pairs) == [t |-> "obj", s |-> <<>>, pairs |-> pairs]
JsonList == [t |-> "list", s |-> <<>>, pairs |-> <<>>]
Pair(k, v) == [key |-> k, val |-> v]

RECURSIVE JsonDumps(_)
RECURSIVE DumpPairs(_)
\* json.dumps(data) with the default separators
JsonDumps(v) ==
    IF v.t = "str" THEN <<"\"">> \o v.s \o <<"\"">>
    ELSE IF v.t = "obj" THEN <<"{">> \o DumpPairs(v.pairs) \o <<"}">>
    ELSE <<"[", "]">>

DumpPairs(pairs) ==
    IF pairs = <<>> THEN <<>>
    ELSE <<"\"">> \o Head(pairs).key \o <<"\"", ":", " ">> \o JsonDumps(Head(pairs).val)
         \o (IF Tail(pairs) = <<>> THEN <<>> ELSE <<",", " ">> \o DumpPairs(Tail(pairs)))

Keys(v) == {v.pairs[i].key : i \in 1..Len(v.pairs)}

\* dict.get(key): the value, or None
HasKey(v, k) == \E i \in 1..Len(v.pairs) : v.pairs[i].key = k
Get(v, k) == v.pairs[CHOOSE i \in 1..Len(v.pairs) : v.pairs[i].key = k].val

(***************************************************************************)
(* Files.  A file has a status (a regular readable file, missing, a        *)
(* directory, or a regular file that cannot be opened), a name (stem and   *)
(* suffix) and a content.  The content is JSON text, plain text, a PDF or  *)
(* other bytes; pad counts white space in front of it.                     *)
(***************************************************************************)
NoJson == Str(<<>>)
JsonContent(pad, v) ==
    [kind |-> "json", pad |-> pad, json |-> v, words |-> <<>>, pages |-> <<>>, broken |-> FALSE]
TextContent(pad, words) ==
    [kind |-> "text", pad |-> pad, json |-> NoJson, words |-> words, pages |-> <<>>, broken |-> FALSE]
PdfContent(pages, broken) ==
    [kind |-> "pdf", pad |-> 0, json |-> NoJson, words |-> <<>>, pages |-> pages, broken |-> broken]
BinaryContent ==
    [kind |-> "binary", pad |-> 0, json |-> NoJson, words |-> <<>>, pages |-> <<>>, broken |-> FALSE]

File(status, stem, suffix, content) ==
    [status |-> status, stem |-> stem, suffix |-> suffix, content |-> content]

RECURSIVE JoinWords(_, _)
\* sep.join(words)
JoinWords(words, sep) ==
    IF words = <<>> THEN <<>>
    ELSE IF Tail(words) = <<>> THEN Head(words)
    ELSE Head(words) \o sep \o JoinWords(Tail(words), sep)

\* the characters of the file after its leading white space
Body(content) ==
    IF content.kind = "json" THEN JsonDumps(content.json)
    ELSE IF content.kind = "text" THEN JoinWords(content.words, <<" ">>)
    ELSE <<>>

\* f.read(limit) with errors="ignore"; a run of white space is kept as one blank
ReadText(content, limit) ==
    IF content.pad >= limit THEN <<" ">>
    ELSE (IF content.pad > 0 THEN <<" ">> ELSE <<>>)
         \o SubSeq(Body(content), 1,
                   IF Len(Body(content)) <= limit - content.pad
                   THEN Len(Body(content)) ELSE limit - content.pad)

\* f.read(): the whole text
ReadAllText(content) ==
    (IF content.pad > 0 THEN <<" ">> ELSE <<>>) \o Body(content)

\* outcomes of a call: a returned boolean, or an exception
Returns(b) == [exc |-> FALSE, val |-> b]
Raises == [exc |-> TRUE, val |-> FALSE]

\* try: ... except Exception: return False
ExceptReturnFalse(outcome) == IF outcome.exc THEN Returns(FALSE) ELSE outcome

\* open(path, "r") followed by json.load
JsonLoads(f) ==
    f.status = "file" /\ f.content.kind = "json"

\* lines 96-106: the body of the try block of _validate_json_ehr
ValidateJsonBody(f) ==
    IF ~JsonLoads(f) THEN Raises
    ELSE IF f.content.json.t = "obj"
         THEN IF EHR_REQUIRED_FIELDS \cap {Lower(k) : k \in Keys(f.content.json)} # {}
              THEN Returns(TRUE)
              ELSE Returns(text_contains_ehr_keywords(Lower(JsonDumps(f.content.json))))
         ELSE Returns(FALSE)

\* _validate_json_ehr without its try/except
validate_json_ehr_uncaught(f) == ValidateJsonBody(f)

\* _validate_json_ehr
validate_json_ehr(f) == ExceptReturnFalse(ValidateJsonBody(f))

\* f.read(8192)
ReadLimit == 8192

\* _validate_txt_ehr
validate_txt_ehr(f) ==
    ExceptReturnFalse(
        IF f.status # "file" THEN Raises
        ELSE Returns(text_contains_ehr_keywords(ReadText(f.content, ReadLimit))))

\* pages sampled by _validate_pdf_ehr
SampledPages == 3

Page(raises, words) == [raises |-> raises, words |-> words]

RECURSIVE PageTexts(_, _)
\* the texts of the first n pages, a page whose extraction raises left out
PageTexts(pages, n) ==
    IF pages = <<>> \/ n = 0 THEN <<>>
    ELSE (IF Head(pages).raises THEN <<>> ELSE <<JoinWords(Head(pages).words, <<" ">>)>>)
         \o PageTexts(Tail(pages), n - 1)

\* PyPDF2.PdfReader(str(path)) opens and parses the file
PdfReads(f) ==
    f.status = "file" /\ f.content.kind = "pdf" /\ ~f.content.broken

\* _validate_pdf_ehr
validate_pdf_ehr(f, pypdf2) ==
    IF ~pypdf2 THEN Returns(FALSE)
    ELSE ExceptReturnFalse(
        IF ~PdfReads(f) THEN Raises
        ELSE Returns(text_contains_ehr_keywords(
                 JoinWords(PageTexts(f.content.pages, SampledPages), <<"\n">>))))

\* a buggy validator that lets every unlisted suffix through
validate_ehr_file_open(f, pypdf2) ==
    IF f.status \in {"missing", "dir"} THEN Returns(FALSE)
    ELSE IF Lower(f.suffix) \in {sfx_json} THEN validate_json_ehr(f)
    ELSE IF Lower(f.suffix) \in {sfx_txt, sfx_md, sfx_csv} THEN validate_txt_ehr(f)
    ELSE IF Lower(f.suffix) \in {sfx_pdf} THEN validate_pdf_ehr(f, pypdf2)
    ELSE Returns(TRUE)

\* validate_ehr_file (helpers.py)
validate_ehr_file(f, pypdf2) ==
    IF f.status \in {"missing", "dir"} THEN Returns(FALSE)
    ELSE IF Lower(f.suffix) \in {sfx_json} THEN validate_json_ehr(f)
    ELSE IF Lower(f.suffix) \in {sfx_txt, sfx_md, sfx_csv} THEN validate_txt_ehr(f)
    ELSE IF Lower(f.suffix) \in {sfx_pdf} THEN validate_pdf_ehr(f, pypdf2)
    ELSE Returns(FALSE)

\* REQUIRED_EHR_FIELDS (logger.py)
REQUIRED_EHR_FIELDS ==
    {w_name, w_address, w_genotype, w_blood_group, w_dob, w_gender, w_medical_history,
     w_allergies}

\* BlockchainLogger.validate_ehr_structure
validate_ehr_structure(v) ==
    v.t = "obj" /\ REQUIRED_EHR_FIELDS \subseteq Keys(v)

\* BlockchainLogger.validate_ehr_file
logger_validate_ehr_file(f) ==
    IF f.status = "missing" THEN Returns(FALSE)
    ELSE IF Lower(f.suffix) # sfx_json THEN Returns(FALSE)
    ELSE IF ~JsonLoads(f) THEN Returns(FALSE)
    ELSE Returns(validate_ehr_structure(f.content.json))

(***************************************************************************)
(* utils/helpers.py: the EHR repository.                                   *)
(***************************************************************************)
UserIds == {"00001", "00002"}

NoFolder == [exists |-> FALSE, files |-> {}]
EmptyEhr == [u \in UserIds |-> NoFolder]

\* the file shutil.copy leaves at EHR_DIR/user_id/<name of f>
Stored(f, t) == [stem |-> f.stem, suffix |-> f.suffix, content |-> f.content, mtime |-> t]

SameName(g, f) == g.stem = f.stem /\ g.suffix = f.suffix

\* a buggy save that copies without validating
SaveEhrFolder_unchecked(folder, f, pypdf2, t) ==
    [exists |-> TRUE, files |-> {g \in folder.files : ~SameName(g, f)} \cup {Stored(f, t)}]

\* a buggy save that creates the folder before it validates
SaveEhrFolder_mkdir_first(folder, f, pypdf2, t) ==
    IF validate_ehr_file(f, pypdf2).val
    THEN [exists |-> TRUE,
          files |-> {g \in folder.files : ~SameName(g, f)} \cup {Stored(f, t)}]
    ELSE [exists |-> TRUE, files |-> folder.files]

\* a buggy save that keeps the file it should replace
SaveEhrFolder_keep_old(folder, f, pypdf2, t) ==
    IF validate_ehr_file(f, pypdf2).val
    THEN [exists |-> TRUE, files |-> folder.files \cup {Stored(f, t)}]
    ELSE folder

\* save_ehr_for_user: the user's folder after the call
SaveEhrFolder(folder, f, pypdf2, t) ==
    IF validate_ehr_file(f, pypdf2).val
    THEN [exists |-> TRUE,
          files |-> {g \in folder.files : ~SameName(g, f)} \cup {Stored(f, t)}]
    ELSE folder

\* save_ehr_for_user: the exception it ends with, "none" when it returns
SaveEhrError(f, pypdf2) ==
    IF validate_ehr_file(f, pypdf2).val THEN "none" ELSE "ValueError"

\* str(dest_file)
StoredPath(user_id, f) == <<user_id, f.stem, f.suffix>>

save_ehr_for_user(user_id, f) ==
    ehr' = [ehr EXCEPT ![user_id] = SaveEhrFolder(ehr[user_id], f, hasPyPDF2, now)]

\* a buggy listing that returns the files in directory order
load_user_ehr_unsorted(folder) ==
    IF ~folder.exists THEN {<<>>}
    ELSE {q \in [1..Cardinality(folder.files) -> folder.files] :
              \A i, j \in DOMAIN q : i # j => q[i] # q[j]}

\* load_user_ehr: the stored files in the order of their modification time;
\* files of equal time come in directory order, which is any order
load_user_ehr(folder) ==
    IF ~folder.exists THEN {<<>>}
    ELSE {q \in [1..Cardinality(folder.files) -> folder.files] :
              /\ \A i, j \in DOMAIN q : i # j => q[i] # q[j]
              /\ \A i, j \in DOMAIN q : i < j => q[i].mtime <= q[j].mtime}

NoFile == File("missing", "", sfx_none, BinaryContent)

NoUsers == [u \in {} |-> 0]
NoSession == "None"

AuthIdle ==
    /\ users = NoUsers
    /\ usersFile = NoUsers
    /\ bio = {}
    /\ session = NoSession
    /\ label_map = {}

AppIdle ==
    /\ ehr = EmptyEhr
    /\ vfile = NoFile
    /\ hasPyPDF2 = TRUE
    /\ AuthIdle

(***************************************************************************)
(* The ledger on its own: calls of the BlockchainLogger API, one at a      *)
(* time, on a ledger file found in any condition.                          *)
(***************************************************************************)
LedgerUsers == {"00001", "00002"}
LedgerActions == {"EHR_FILE_UPLOADED", "USER_DELETED"}
LedgerMetas == {NoMeta, FileMeta(<<"a.json">>), FileMeta(NotJson)}

NoRet == [op |-> "none", arg |-> "", exc |-> "none", val |-> <<>>]

\* no face capture is running
CapIdle ==
    /\ capPc = "idle"
    /\ camera = "working"
    /\ saved_count = 0

ConcIdle ==
    /\ pc = [p \in {} |-> "idle"]
    /\ localBlock = [p \in {} |-> <<>>]
    /\ localLedger = [p \in {} |-> <<>>]
    /\ overlaid = [p \in {} |-> FALSE]
    /\ CapIdle

InitLedger ==
    /\ ledgerKind \in {"missing", "garbage", "object", "array"}
    /\ ledger = <<>>
    /\ constructed = FALSE
    /\ now = 0
    /\ ret = NoRet
    /\ ConcIdle
    /\ AppIdle

\* time passes
Tick ==
    /\ now < MaxTime
    /\ now' = now + 1
    /\ UNCHANGED <<ledgerVars, ret, concVars, appVars, authVars>>

\* BlockchainLogger(): __init__ runs _ensure_ledger
Construct ==
    /\ ensure_ledger
    /\ constructed' = TRUE
    /\ ret' = [op |-> "construct", arg |-> "", exc |-> "none", val |-> <<>>]
    /\ UNCHANGED <<now, concVars, appVars, authVars>>

LogEventCall(user_id, action, metadata) ==
    /\ constructed
    /\ Len(ledger) < MaxLedger
    /\ log_event(user_id, action, metadata)
    /\ ret' = [op |-> "log_event", arg |-> user_id,
               exc |-> LogEventError(ledgerKind, metadata), val |-> <<>>]
    /\ UNCHANGED <<constructed, now, concVars, appVars, authVars>>

GetUserLogsCall(user_id) ==
    /\ constructed
    /\ ret' = [op |-> "get_user_logs", arg |-> user_id,
               exc |-> get_user_logs(ledgerKind, ledger, user_id).exc,
               val |-> get_user_logs(ledgerKind, ledger, user_id).val]
    /\ UNCHANGED <<ledgerVars, now, concVars, appVars, authVars>>

GetAllLogsCall ==
    /\ constructed
    /\ ret' = [op |-> "get_all_logs", arg |-> "",
               exc |-> get_all_logs(ledgerKind, ledger).exc,
               val |-> get_all_logs(ledgerKind, ledger).val]
    /\ UNCHANGED <<ledgerVars, now, concVars, appVars, authVars>>

NextLedger ==
    \/ Tick
    \/ Construct
    \/ \E u \in LedgerUsers, a \in LedgerActions, m \in LedgerMetas : LogEventCall(u, a, m)
    \/ \E u \in LedgerUsers : GetUserLogsCall(u)
    \/ GetAllLogsCall

SpecLedger == InitLedger /\ [][NextLedger]_vars

(***************************************************************************)
(* Chain integrity.                                                        *)
(***************************************************************************)
ChainLinked(entries) ==
    \A i \in 1..Len(entries) :
        entries[i].prev_hash = IF i = 1 THEN GENESIS ELSE entries[i - 1].hash

\* the digest of an entry's own fields, the hash left out, keys sorted
RecomputedHash(e) ==
    <<"sha256", << <<"action", e.action>>, <<"metadata", e.metadata>>,
                   <<"prev_hash", e.prev_hash>>, <<"timestamp", e.timestamp>>,
                   <<"user_id", e.user_id>> >> >>

\* verify_chain: every stored hash is the digest of the entry, and the chain is linked
VerifyChain(entries) ==
    /\ \A i \in 1..Len(entries) : entries[i].hash = RecomputedHash(entries[i])
    /\ ChainLinked(entries)

TamperMetas == {NoMeta, FileMeta(<<"a.json">>), FileMeta(<<"b.json">>), OutMeta(<<"all.zip">>)}

\* C1: after any sequence of sequential log_event calls on a ledger that started
\* empty, entry 0 carries prev_hash "GENESIS" and every later entry carries the
\* hash of the entry before it.
C1_ChainLinked == ChainLinked(ledger)

C1_Witness ==
    /\ Len(ledger) >= 3
    /\ ledger[1].prev_hash = GENESIS
    /\ ledger[3].prev_hash = ledger[2].hash
    /\ ledger[2].hash # ledger[1].hash

\* C2: every ledger produced by log_event calls on a fresh chain passes a
\* verification that recomputes each hash from the entry's other fields and
\* checks the linkage; and putting any different metadata into any single
\* stored entry makes that verification fail.
C2_VerifyAndTamper ==
    /\ VerifyChain(ledger)
    /\ \A i \in 1..Len(ledger) : \A m \in TamperMetas :
          m # ledger[i].metadata => ~VerifyChain([ledger EXCEPT ![i].metadata = m])

C2_Witness ==
    /\ Len(ledger) >= 2
    /\ VerifyChain(ledger)
    /\ ledger[1].metadata = FileMeta(<<"a.json">>)
    /\ ~VerifyChain([ledger EXCEPT ![1].metadata = FileMeta(<<"b.json">>)])

(***************************************************************************)
(* Two callers inside log_event at once, on the same ledger file.  The     *)
(* code takes no lock, so each file access is a step of its own:           *)
(*   _get_last_hash (open, json.load)   line 108                           *)
(*   open "r", json.load, append        lines 113-116                      *)
(*   open "w" (truncates the file)      line 118                           *)
(*   json.dump, close                   line 119                           *)
(***************************************************************************)
Procs == {"P1", "P2"}
ConcUsers == {"00001", "00002"}
ConcMetas == {NoMeta, FileMeta(NotJson)}

\* the chains the two callers may find: empty, or one entry logged earlier
ConcStartLedgers ==
    {<<>>, LogEventEntries("array", <<>>, 0, "00001", "USER_DELETED", NoMeta)}

InitConc ==
    /\ ledgerKind = "array"
    /\ ledger \in ConcStartLedgers
    /\ constructed = TRUE
    /\ now = 0
    /\ ret = NoRet
    /\ pc = [p \in Procs |-> "idle"]
    /\ localBlock = [p \in Procs |-> NewBlock(0, "", "", NoMeta, GENESIS)]
    /\ localLedger = [p \in Procs |-> <<>>]
    /\ overlaid = [p \in Procs |-> FALSE]
    /\ CapIdle
    /\ AppIdle

\* lines 103-111: the block is built, its prev_hash read from the file, and hashed
CBuildBlock(p, user_id, action, metadata) ==
    /\ pc[p] = "idle"
    /\ localBlock' = [localBlock EXCEPT
           ![p] = NewBlock(now, user_id, action, metadata, get_last_hash(ledgerKind, ledger))]
    /\ pc' = [pc EXCEPT ![p] = IF JsonSerializable(metadata) THEN "hashed" ELSE "failed"]
    /\ UNCHANGED <<ledgerVars, now, ret, localLedger, overlaid, capVars, appVars, authVars>>

\* lines 113-116: the file is loaded and the block appended to the loaded list
CLoad(p) ==
    /\ pc[p] = "hashed"
    /\ IF ledgerKind = "array"
       THEN /\ localLedger' = [localLedger EXCEPT ![p] = Append(ledger, Hashed(localBlock[p]))]
            /\ pc' = [pc EXCEPT ![p] = "loaded"]
       ELSE /\ pc' = [pc EXCEPT ![p] = "failed"]
            /\ UNCHANGED localLedger
    /\ UNCHANGED <<ledgerVars, now, ret, localBlock, overlaid, capVars, appVars, authVars>>

\* line 118: open(..., "w") empties the file
COpenWrite(p) ==
    /\ pc[p] = "loaded"
    /\ ledgerKind' = "garbage"
    /\ ledger' = <<>>
    /\ pc' = [pc EXCEPT ![p] = "opened"]
    /\ overlaid' = [overlaid EXCEPT ![p] = FALSE]
    /\ UNCHANGED <<constructed, now, ret, localBlock, localLedger, capVars, appVars, authVars>>

\* line 119: the list is written from offset 0 and the file closed.  Bytes
\* another writer put there since this caller's open stay behind the end of
\* a shorter text, which leaves the file unparsable.
CDump(p) ==
    /\ pc[p] = "opened"
    /\ \/ /\ ledgerKind' = "array"
          /\ ledger' = localLedger[p]
       \/ /\ overlaid[p]
          /\ ledgerKind' = "garbage"
          /\ ledger' = <<>>
    /\ pc' = [pc EXCEPT ![p] = "done"]
    /\ overlaid' = [q \in Procs |-> IF q # p /\ pc[q] = "opened" THEN TRUE ELSE overlaid[q]]
    /\ UNCHANGED <<constructed, now, ret, localBlock, localLedger, capVars, appVars, authVars>>

NextConc ==
    \/ Tick
    \/ \E p \in Procs, u \in ConcUsers, m \in ConcMetas :
           CBuildBlock(p, u, "EHR_FILE_UPLOADED", m)
    \/ \E p \in Procs : CLoad(p)
    \/ \E p \in Procs : COpenWrite(p)
    \/ \E p \in Procs : CDump(p)

SpecConc == InitConc /\ [][NextConc]_vars

NoSharedPrev(entries) ==
    \A i, j \in 1..Len(entries) : i # j => entries[i].prev_hash # entries[j].prev_hash

\* C4: whatever the interleaving of two concurrent log_event calls, the two
\* never both read the same last hash and both write: the chain they leave has
\* no two entries with the same prev_hash and is still linked.
C4_NoForkedAppend ==
    (pc["P1"] = "done" /\ pc["P2"] = "done") =>
        /\ localBlock["P1"].prev_hash # localBlock["P2"].prev_hash
        /\ ledgerKind = "array" => (NoSharedPrev(ledger) /\ ChainLinked(ledger))

(***************************************************************************)
(* The validator and the repository on one candidate file: the file is     *)
(* drawn from a universe of JSON, text, PDF and other files, and the       *)
(* validators and save_ehr_for_user are applied to it.                     *)
(***************************************************************************)
SeqsUpTo(S, n) == UNION {[1..m -> S] : m \in 0..n}

DistinctKeys(pairs) ==
    \A i, j \in 1..Len(pairs) : i # j => pairs[i].key # pairs[j].key

JsonKeyPool == {w_name, w_Name, w_bloodgroup, w_blood_group, w_surname, w_note}
JsonValPool == {Str(<<>>), Str(w_address), Obj(<<Pair(w_genotype, Str(w_x))>>)}

GenObjs ==
    {Obj(ps) : ps \in {q \in SeqsUpTo({Pair(k, v) : k \in JsonKeyPool, v \in JsonValPool},
                                      MaxPairs) : DistinctKeys(q)}}

\* the field set the specification requires, with every value v
ExactRequired(v) ==
    Obj(<<Pair(w_name, v), Pair(w_address, v), Pair(w_genotype, v),
          Pair(w_blood_group, v), Pair(w_dob, v), Pair(w_medical_history, v)>>)

\* the field set of REQUIRED_EHR_FIELDS
AllEight(v) ==
    Obj(<<Pair(w_name, v), Pair(w_address, v), Pair(w_genotype, v),
          Pair(w_blood_group, v), Pair(w_dob, v), Pair(w_gender, v),
          Pair(w_medical_history, v), Pair(w_allergies, v)>>)

NamedJson ==
    {ExactRequired(v) : v \in JsonValPool} \cup {AllEight(Str(w_x)), JsonList}

TextWordPool == {w_name, w_Name, w_address, w_bloodgroup, w_blood_group_spaced, w_x}
PadPool == {0, 8180, 8188}

GenTexts == {TextContent(pad, ws) : pad \in PadPool, ws \in SeqsUpTo(TextWordPool, MaxWords)}

PagePool ==
    {Page(TRUE, <<>>), Page(FALSE, <<>>), Page(FALSE, <<w_name>>),
     Page(FALSE, <<w_address, w_genotype>>)}

GenPdfs == {PdfContent(pages, FALSE) : pages \in SeqsUpTo(PagePool, MaxPages)}

AllSuffixes ==
    {sfx_json, sfx_JSON, sfx_txt, sfx_md, sfx_csv, sfx_pdf, sfx_exe, sfx_none}

\* contents tried under every suffix and every file status
CrossContents ==
    {JsonContent(0, ExactRequired(Str(w_x))), JsonContent(0, JsonList),
     JsonContent(0, Obj(<<Pair(w_note, Str(w_x))>>)),
     TextContent(0, <<w_name, w_address>>), TextContent(0, <<w_x>>),
     PdfContent(<<Page(FALSE, <<w_name>>), Page(FALSE, <<w_address, w_genotype>>)>>, FALSE),
     PdfContent(<<Page(FALSE, <<w_address, w_genotype>>)>>, TRUE),
     BinaryContent}

FileUniverse ==
    {File("file", "rec", sfx, JsonContent(0, v)) :
         sfx \in {sfx_json, sfx_JSON}, v \in GenObjs \cup NamedJson}
    \cup {File("file", "rec", sfx, c) : sfx \in {sfx_txt, sfx_md, sfx_csv}, c \in GenTexts}
    \cup {File("file", "rec", sfx_pdf, c) : c \in GenPdfs}
    \cup {File(st, "rec", sfx, c) : st \in {"file", "missing", "dir", "unreadable"},
                                    sfx \in AllSuffixes, c \in CrossContents}

InitVal ==
    /\ ledgerKind = "array"
    /\ ledger = <<>>
    /\ constructed = FALSE
    /\ now = 0
    /\ ret = NoRet
    /\ ConcIdle
    /\ ehr = EmptyEhr
    /\ vfile \in FileUniverse
    /\ hasPyPDF2 \in (IF Lower(vfile.suffix) = sfx_pdf THEN BOOLEAN ELSE {TRUE})
    /\ AuthIdle

ExcName(outcome) == IF outcome.exc THEN "Exception" ELSE "none"

\* utils.helpers.validate_ehr_file(vfile)
ValidateCall ==
    /\ ret' = [op |-> "validate_ehr_file", arg |-> "",
               exc |-> ExcName(validate_ehr_file(vfile, hasPyPDF2)),
               val |-> validate_ehr_file(vfile, hasPyPDF2).val]
    /\ UNCHANGED <<ledgerVars, now, concVars, appVars, authVars>>

\* BlockchainLogger.validate_ehr_file(vfile)
LoggerValidateCall ==
    /\ ret' = [op |-> "logger.validate_ehr_file", arg |-> "",
               exc |-> ExcName(logger_validate_ehr_file(vfile)),
               val |-> logger_validate_ehr_file(vfile).val]
    /\ UNCHANGED <<ledgerVars, now, concVars, appVars, authVars>>

\* utils.helpers.save_ehr_for_user(user_id, f)
SaveCall(user_id, f) ==
    /\ save_ehr_for_user(user_id, f)
    /\ ret' = [op |-> "save_ehr_for_user", arg |-> user_id,
               exc |-> SaveEhrError(f, hasPyPDF2),
               val |-> validate_ehr_file(f, hasPyPDF2).val]
    /\ UNCHANGED <<ledgerVars, now, concVars, vfile, hasPyPDF2, authVars>>

NextVal ==
    \/ ValidateCall
    \/ LoggerValidateCall
    \/ \E u \in UserIds : SaveCall(u, vfile)

SpecVal == InitVal /\ [][NextVal]_vars

IsJsonFile(f) == f.status = "file" /\ Lower(f.suffix) = sfx_json

\* the .json file parses to an object whose keys are exactly the required field set
HasExactRequiredFields(f) ==
    /\ IsJsonFile(f)
    /\ f.content.kind = "json"
    /\ f.content.json.t = "obj"
    /\ Keys(f.content.json) =
           {w_name, w_address, w_genotype, w_blood_group, w_dob, w_medical_history}

\* C7: each validation entry point (helpers.validate_ehr_file and
\* BlockchainLogger.validate_ehr_file) returns true for every .json file whose
\* top-level object has exactly the fields name, address, genotype,
\* blood_group, dob, medical_history.
C7_ExactFieldsAccepted ==
    (ret.op \in {"validate_ehr_file", "logger.validate_ehr_file"}
        /\ HasExactRequiredFields(vfile)) => ret.val = TRUE

\* the canonical keywords found in the file, as top-level keys or in its text
KeywordsPresent(f) ==
    {kw \in EHR_REQUIRED_FIELDS : IsSubstring(kw, Lower(ReadAllText(f.content)))}

\* C8: validate_ehr_file returns false for every .json file that is missing
\* two or more of the four keywords, as top-level keys or anywhere in its
\* flattened text.
C8_MissingTwoRejected ==
    (ret.op = "validate_ehr_file" /\ IsJsonFile(vfile)
        /\ Cardinality(EHR_REQUIRED_FIELDS \ KeywordsPresent(vfile)) >= 2) => ret.val = FALSE

SupportedSuffixes == {sfx_json, sfx_txt, sfx_md, sfx_csv, sfx_pdf}

\* C9: a file whose extension is not on the list of supported formats is
\* rejected by validate_ehr_file whatever it contains, and save_ehr_for_user
\* never stores such a file.
C9_AllowList ==
    /\ (ret.op = "validate_ehr_file" /\ Lower(vfile.suffix) \notin SupportedSuffixes)
           => ret.val = FALSE
    /\ \A u \in UserIds : \A g \in ehr[u].files : Lower(g.suffix) \in SupportedSuffixes

C9_Witness ==
    /\ ret.op = "save_ehr_for_user"
    /\ ret.exc = "ValueError"
    /\ vfile.status = "file"
    /\ vfile.suffix = sfx_exe
    /\ vfile.content = JsonContent(0, ExactRequired(Str(w_x)))
    /\ ehr = EmptyEhr

\* input that cannot be read or is not of the shape its suffix promises
Malformed(f) ==
    \/ f.status # "file"
    \/ Lower(f.suffix) = sfx_json /\ (f.content.kind # "json" \/ f.content.json.t # "obj")
    \/ Lower(f.suffix) = sfx_pdf /\ (f.content.kind # "pdf" \/ f.content.broken)

\* C10: validate_ehr_file never raises; it returns a boolean for every input,
\* and false for every malformed or unreadable one.
C10_NeverRaises ==
    ret.op = "validate_ehr_file" =>
        /\ ret.exc = "none"
        /\ ret.val \in BOOLEAN
        /\ Malformed(vfile) => ret.val = FALSE

C10_Witness ==
    /\ ret.op = "validate_ehr_file"
    /\ vfile.status = "file"
    /\ vfile.suffix = sfx_json
    /\ vfile.content.kind = "text"
    /\ ret.exc = "none"
    /\ ret.val = FALSE

(***************************************************************************)
(* app.py: the identity store.  Identifiers typed at login and e-mail      *)
(* addresses are sequences of characters.                                  *)
(***************************************************************************)
ADMIN_USERNAME == <<"A", "d", "m", "i", "n">>
ADMIN_PASSWORD == "Admin@123"
UserPassword == "Passw0rd"

e_a == <<"a", "@", "x">>

\* the characters of a user id
IdText(user_id) ==
    IF user_id = "00001" THEN <<"0", "0", "0", "0", "1">> ELSE <<"0", "0", "0", "0", "2">>

RECURSIVE LStrip(_)
LStrip(s) == IF s # <<>> /\ Head(s) = " " THEN LStrip(Tail(s)) ELSE s

RECURSIVE RStrip(_)
RStrip(s) == IF s # <<>> /\ s[Len(s)] = " " THEN RStrip(SubSeq(s, 1, Len(s) - 1)) ELSE s

Strip(s) == RStrip(LStrip(s))

NoPath == <<>>

\* get_user_fingerprint_path
FingerprintPath(user_id) == <<user_id, "fingerprint.png">>

\* a buggy check that compares with the lower-cased name
is_admin_lowercase(username, password) ==
    username = Lower(ADMIN_USERNAME) /\ password = ADMIN_PASSWORD

is_admin(username, password) == username = ADMIN_USERNAME /\ password = ADMIN_PASSWORD

Put(us, uid, rec) == [k \in DOMAIN us \cup {uid} |-> IF k = uid THEN rec ELSE us[k]]
\* a buggy pop that removes nothing
Pop_keep(us, uid) == us

Pop(us, uid) == [k \in DOMAIN us \ {uid} |-> us[k]]

\* a buggy duplicate test that compares the addresses as typed
EmailTaken_exact(us, email) ==
    \E uid \in DOMAIN us : us[uid].email = email

EmailTaken(us, email) ==
    \E uid \in DOMAIN us : Lower(Strip(us[uid].email)) = Lower(Strip(email))

\* generate_user_id: a random id that is not a key of users.json; UserIds is
\* the whole id space, so when every id is a key the retries run out and the
\* id cut from the clock is returned unchecked
generate_user_id(file) ==
    IF UserIds \ DOMAIN file # {} THEN UserIds \ DOMAIN file ELSE UserIds

UserRecord(email, password, biometric_type, fingerprint_path) ==
    [email |-> Strip(email), password |-> Sha256(password),
     biometric_type |-> biometric_type, fingerprint_path |-> fingerprint_path]

\* AuthSystem.register_user; captured is whether the face capture and the
\* training of the recognizer return
RegisterUser(email, password, biometric_type, captured) ==
    /\ constructed
    /\ IF EmailTaken(users, email)
       THEN /\ ret' = [op |-> "register_user", arg |-> email, exc |-> "none", val |-> "None"]
            /\ UNCHANGED authVars
       ELSE \E user_id \in generate_user_id(usersFile) :
              /\ bio' = bio \cup {user_id}
              /\ IF biometric_type = "face" /\ ~captured
                 THEN /\ users' = Put(users, user_id,
                                      UserRecord(email, password, biometric_type, NoPath))
                      /\ UNCHANGED usersFile
                      /\ ret' = [op |-> "register_user", arg |-> email,
                                 exc |-> "Exception", val |-> ""]
                 ELSE /\ users' = Put(users, user_id,
                                      UserRecord(email, password, biometric_type,
                                                 IF biometric_type = "fingerprint"
                                                 THEN FingerprintPath(user_id) ELSE NoPath))
                      /\ usersFile' = users'
                      /\ ret' = [op |-> "register_user", arg |-> email,
                                 exc |-> "none", val |-> user_id]
              /\ label_map' = IF biometric_type = "face" /\ captured
                              THEN label_map \cup {user_id} ELSE label_map
              /\ UNCHANGED session
    /\ UNCHANGED <<ledgerVars, now, concVars, appVars>>

\* a buggy lookup that knows the numeric id only
LoginMatches_id_only(us, identifier) ==
    {uid \in DOMAIN us : identifier = IdText(uid)}

\* the users the login loop can stop at
LoginMatches(us, identifier) ==
    {uid \in DOMAIN us : identifier = IdText(uid) \/ identifier = us[uid].email}

\* AuthSystem.login_password: the value returned and active_session after it
LoginOutcomes(us, sess, username_or_email, password) ==
    IF is_admin(Strip(username_or_email), password)
    THEN {[val |-> TRUE, session |-> "Admin"]}
    ELSE IF LoginMatches(us, Strip(username_or_email)) = {}
    THEN {[val |-> FALSE, session |-> sess]}
    ELSE {IF us[uid].password = Sha256(password)
          THEN [val |-> TRUE, session |-> uid]
          ELSE [val |-> FALSE, session |-> sess] :
              uid \in LoginMatches(us, Strip(username_or_email))}

\* AuthSystem.login_password
LoginPassword(username_or_email, password) ==
    /\ constructed
    /\ \E o \in LoginOutcomes(users, session, username_or_email, password) :
          /\ session' = o.session
          /\ ret' = [op |-> "login_password", arg |-> "", exc |-> "none", val |-> o.val]
    /\ UNCHANGED <<ledgerVars, now, concVars, appVars, users, usersFile, bio, label_map>>

\* DashboardPage.logout
Logout ==
    /\ constructed
    /\ session' = NoSession
    /\ ret' = [op |-> "logout", arg |-> "", exc |-> "none", val |-> <<>>]
    /\ UNCHANGED <<ledgerVars, now, concVars, appVars, users, usersFile, bio, label_map>>

(***************************************************************************)
(* gui/dashboard.py: the handlers behind the admin table.                  *)
(***************************************************************************)
DASH_REQUIRED_EHR_FIELDS ==
    {w_name, w_address, w_dob, w_genotype, w_blood_group, w_medical_history}

JsonNone == [t |-> "none", s |-> <<>>, pairs |-> <<>>]

\* ehr_obj.get(field)
FieldValue(v, field) == IF HasKey(v, field) THEN Get(v, field) ELSE JsonNone

\* DashboardPage._validate_ehr_object
validate_ehr_object(v) ==
    /\ v.t = "obj"
    /\ \A field \in DASH_REQUIRED_EHR_FIELDS :
          /\ field \in {Lower(k) : k \in Keys(v)} \/ HasKey(v, field)
          /\ FieldValue(v, field) \notin {JsonNone, Str(<<>>), JsonList}

\* pages read by DashboardPage._extract_text_from_file
ExtractedPages == 5

NoText == [ok |-> FALSE, text |-> <<>>]

\* DashboardPage._extract_text_from_file: the text, or None
extract_text_from_file(f, pypdf2) ==
    IF Lower(f.suffix) \in {sfx_txt, sfx_md, sfx_csv}
    THEN IF f.status = "file" THEN [ok |-> TRUE, text |-> ReadAllText(f.content)] ELSE NoText
    ELSE IF Lower(f.suffix) = sfx_pdf
    THEN IF pypdf2 /\ PdfReads(f) /\ PageTexts(f.content.pages, ExtractedPages) # <<>>
         THEN [ok |-> TRUE,
               text |-> JoinWords(PageTexts(f.content.pages, ExtractedPages), <<"\n", "\n">>)]
         ELSE NoText
    ELSE NoText

\* lines 181-198 of upload_ehr_for_user: the object handed to
\* _validate_ehr_object, or no object when the handler gives up before
UploadObject(f, pypdf2) ==
    IF Lower(f.suffix) = sfx_json
    THEN IF JsonLoads(f) THEN [ok |-> TRUE, obj |-> f.content.json]
         ELSE [ok |-> FALSE, obj |-> JsonNone]
    ELSE LET extracted == extract_text_from_file(f, pypdf2)
         IN IF ~extracted.ok \/ extracted.text = <<>> THEN [ok |-> FALSE, obj |-> JsonNone]
            ELSE IF f.content.kind = "json" THEN [ok |-> TRUE, obj |-> f.content.json]
            ELSE [ok |-> TRUE, obj |-> Obj(<<Pair(w_raw_text, Str(extracted.text))>>)]

\* DashboardPage.upload_ehr_for_user, f being the file picked in the dialog
UploadEhrForUser(user_id, f) ==
    /\ constructed
    /\ user_id \in DOMAIN usersFile
    /\ Len(ledger) < MaxEvents
    /\ IF ~UploadObject(f, hasPyPDF2).ok \/ ~validate_ehr_object(UploadObject(f, hasPyPDF2).obj)
       THEN /\ ret' = [op |-> "upload_ehr_for_user", arg |-> user_id,
                       exc |-> "none", val |-> "declined"]
            /\ UNCHANGED <<ledgerVars, ehr>>
       ELSE /\ save_ehr_for_user(user_id, f)
            /\ IF SaveEhrError(f, hasPyPDF2) # "none"
               THEN /\ ret' = [op |-> "upload_ehr_for_user", arg |-> user_id,
                               exc |-> SaveEhrError(f, hasPyPDF2), val |-> "raised"]
                    /\ UNCHANGED ledgerVars
               ELSE /\ log_event(user_id, "EHR_FILE_UPLOADED", FileMeta(StoredPath(user_id, f)))
                    /\ UNCHANGED constructed
                    /\ ret' = [op |-> "upload_ehr_for_user", arg |-> user_id,
                               exc |-> LogEventError(ledgerKind,
                                                     FileMeta(StoredPath(user_id, f))),
                               val |-> IF LogEventError(ledgerKind,
                                                        FileMeta(StoredPath(user_id, f)))
                                          = "none"
                                       THEN "logged" ELSE "raised"]
    /\ UNCHANGED <<now, concVars, vfile, hasPyPDF2, authVars>>

\* tempfile.NamedTemporaryFile(suffix=".json"): names not handed out before
TmpStems == {"tmp1", "tmp2"}

UsedStems == UNION {{g.stem : g \in ehr[u].files} : u \in UserIds}

\* the file save_manual writes with json.dump
ManualFile(stem, obj) == File("file", stem, sfx_json, JsonContent(0, obj))

\* the object save_manual builds from the entries of the form
ManualObject(entries) ==
    Obj(<<Pair(w_name, Str(Strip(entries[1]))), Pair(w_address, Str(Strip(entries[2]))),
          Pair(w_dob, Str(Strip(entries[3]))), Pair(w_genotype, Str(Strip(entries[4]))),
          Pair(w_blood_group, Str(Strip(entries[5]))),
          Pair(w_medical_history, Str(Strip(entries[6])))>>)

\* DashboardPage.open_edit_ehr_modal.save_manual
SaveManual(user_id, entries) ==
    /\ constructed
    /\ user_id \in DOMAIN usersFile
    /\ Len(ledger) < MaxEvents
    /\ Cardinality({g \in ehr[user_id].files : g.stem \in TmpStems}) < MaxTmp
    /\ IF ~validate_ehr_object(ManualObject(entries))
       THEN /\ ret' = [op |-> "save_manual", arg |-> user_id,
                       exc |-> "none", val |-> "declined"]
            /\ UNCHANGED <<ledgerVars, ehr>>
       ELSE \E stem \in TmpStems \ UsedStems :
              LET tmp == ManualFile(stem, ManualObject(entries))
                  meta == FileMeta(StoredPath(user_id, tmp))
              IN /\ save_ehr_for_user(user_id, tmp)
                 /\ IF SaveEhrError(tmp, hasPyPDF2) # "none"
                    THEN /\ UNCHANGED ledgerVars
                         /\ ret' = [op |-> "save_manual", arg |-> user_id,
                                    exc |-> "none", val |-> "failed"]
                    ELSE /\ log_event(user_id, "EHR_MANUALLY_UPDATED", meta)
                         /\ UNCHANGED constructed
                         /\ ret' = [op |-> "save_manual", arg |-> user_id, exc |-> "none",
                                    val |-> IF LogEventError(ledgerKind, meta) = "none"
                                            THEN "logged" ELSE "failed"]
    /\ UNCHANGED <<now, concVars, vfile, hasPyPDF2, authVars>>

\* AuthSystem.admin_upload_ehr
AdminUploadEhr(target_user_id, f) ==
    /\ constructed
    /\ IF session # "Admin"
       THEN /\ ret' = [op |-> "admin_upload_ehr", arg |-> target_user_id,
                       exc |-> "PermissionError", val |-> "raised"]
            /\ UNCHANGED ehr
       ELSE /\ save_ehr_for_user(target_user_id, f)
            /\ ret' = [op |-> "admin_upload_ehr", arg |-> target_user_id,
                       exc |-> SaveEhrError(f, hasPyPDF2),
                       val |-> IF SaveEhrError(f, hasPyPDF2) = "none"
                               THEN "stored" ELSE "raised"]
    /\ UNCHANGED <<ledgerVars, now, concVars, vfile, hasPyPDF2, authVars>>

\* DashboardPage.delete_user, the confirmation answered yes
DeleteUser(user_id) ==
    /\ constructed
    /\ user_id \in DOMAIN usersFile
    /\ Len(ledger) < MaxEvents
    /\ users' = Pop(users, user_id)
    /\ usersFile' = users'
    /\ log_event(user_id, "USER_DELETED", NoMeta)
    /\ UNCHANGED constructed
    /\ ret' = [op |-> "delete_user", arg |-> user_id,
               exc |-> LogEventError(ledgerKind, NoMeta),
               val |-> IF LogEventError(ledgerKind, NoMeta) = "none"
                       THEN "logged" ELSE "raised"]
    /\ UNCHANGED <<now, concVars, appVars, bio, session, label_map>>

(***************************************************************************)
(* The application: AuthSystem and the dashboard on one data directory,    *)
(* one handler at a time.                                                  *)
(***************************************************************************)
GoodJson == File("file", "a", sfx_json, JsonContent(0, ExactRequired(Str(w_x))))
NameOnlyJson == File("file", "n", sfx_json, JsonContent(0, Obj(<<Pair(w_name, Str(w_x))>>)))
PaddedTxt == File("file", "p", sfx_txt, JsonContent(8188, ExactRequired(Str(w_x))))
ExeFile == File("file", "e", sfx_exe, JsonContent(0, ExactRequired(Str(w_x))))

FullEntries == <<w_x, w_x, w_x, w_x, w_x, w_x>>
BlankAddress == <<w_x, <<" ">>, w_x, w_x, w_x, w_x>>

Init ==
    /\ ledgerKind \in {"missing", "array"}
    /\ ledger = <<>>
    /\ constructed = FALSE
    /\ now = 0
    /\ ret = NoRet
    /\ ConcIdle
    /\ AppIdle

\* the application starts: AuthSystem() loads users.json, DashboardPage()
\* constructs its BlockchainLogger
StartApp ==
    /\ ensure_ledger
    /\ constructed' = TRUE
    /\ users' = usersFile
    /\ session' = NoSession
    /\ ret' = [op |-> "start", arg |-> "", exc |-> "none", val |-> <<>>]
    /\ UNCHANGED <<now, concVars, appVars, usersFile, bio, label_map>>

\* the OpenCV build has no cv2.face: a face registration ends in an exception
Next ==
    \/ StartApp
    \/ \E b \in {"face", "fingerprint"} :
          RegisterUser(e_a, UserPassword, b, b = "fingerprint")
    \/ LoginPassword(ADMIN_USERNAME, ADMIN_PASSWORD)
    \/ Logout
    \/ \E u \in UserIds, f \in {GoodJson, PaddedTxt, ExeFile} : UploadEhrForUser(u, f)
    \/ \E u \in UserIds, en \in {FullEntries, BlankAddress} : SaveManual(u, en)
    \/ \E u \in UserIds, f \in {NameOnlyJson, ExeFile} : AdminUploadEhr(u, f)
    \/ \E u \in UserIds, f \in {NameOnlyJson, ExeFile} : SaveCall(u, f)
    \/ \E u \in UserIds : DeleteUser(u)
    \/ \E u \in UserIds : GetUserLogsCall(u)
    \/ GetAllLogsCall

Spec == Init /\ [][Next]_vars

IsPrefix(s, t) == Len(s) <= Len(t) /\ SubSeq(t, 1, Len(s)) = s

\* the handlers that call log_event
LoggingOps == {"upload_ehr_for_user", "save_manual", "delete_user"}

\* C3: the ledger is append-only.  A step in which log_event completes makes
\* the chain one entry longer and keeps every stored entry in its place; no
\* other step (a read of the logs, a restart on a valid ledger file, a
\* registration, a deletion whose log_event fails, an EHR save) changes the
\* chain; so every earlier chain is a prefix of every later one.
C3_AppendOnly ==
    [][/\ IsPrefix(ledger, ledger')
       /\ ledgerKind = "array" => ledgerKind' = "array"
       /\ (ret'.op \in LoggingOps /\ ret'.val = "logged") => Len(ledger') = Len(ledger) + 1
       /\ ~(ret'.op \in LoggingOps /\ ret'.val = "logged") => ledger' = ledger]_vars

C3_Witness ==
    /\ ret.op = "start"
    /\ Len(ledger) = MaxEvents
    /\ \E i \in 1..Len(ledger) : ledger[i].action = "USER_DELETED"
    /\ \E i \in 1..Len(ledger) : ledger[i].action = "EHR_FILE_UPLOADED"

\* the stored file, read back as a candidate
AsSource(g) == File("file", g.stem, g.suffix, g.content)

StoreOps == {"upload_ehr_for_user", "save_manual", "admin_upload_ehr", "save_ehr_for_user"}

\* C5: every file in a user's EHR directory is one validate_ehr_file accepts,
\* and a file appears or changes there only in a step of one of the storing
\* operations (upload_ehr_for_user, save_manual, admin_upload_ehr, all through
\* save_ehr_for_user) for that user, which validated it in that same step.
C5_NoBypass ==
    /\ [](\A u \in UserIds : \A g \in ehr[u].files :
              validate_ehr_file(AsSource(g), hasPyPDF2).val)
    /\ [][\A u \in UserIds : \A g \in ehr'[u].files \ ehr[u].files :
              /\ ret'.op \in StoreOps
              /\ ret'.arg = u
              /\ ret'.exc = "none"
              /\ validate_ehr_file(AsSource(g), hasPyPDF2).val]_vars

C5_Witness ==
    /\ ret.op = "admin_upload_ehr"
    /\ ret.exc = "none"
    /\ \E u \in UserIds :
          {g.stem : g \in ehr[u].files} = {"a", "n", "tmp1"}

\* C6: when validate_ehr_file returns false for the source file,
\* save_ehr_for_user ends with ValueError and changes nothing: no folder is
\* created, no file is copied, and load_user_ehr returns what it returned
\* before.  (ret.val of a save_ehr_for_user call is what validate_ehr_file
\* returned in it.)
C6_RejectedSaveChangesNothing ==
    [][(ret'.op = "save_ehr_for_user" /\ ret'.val = FALSE) =>
          /\ ret'.exc = "ValueError"
          /\ ehr' = ehr
          /\ load_user_ehr(ehr'[ret'.arg]) = load_user_ehr(ehr[ret'.arg])]_vars

C6_Witness ==
    /\ ret.op = "save_ehr_for_user"
    /\ ret.exc = "ValueError"
    /\ ehr[ret.arg].files # {}
    /\ \E u \in UserIds : ~ehr[u].exists

(***************************************************************************)
(* The identity store on its own: registrations, deletions, restarts and   *)
(* password logins.                                                        *)
(***************************************************************************)
e_A_spaced == <<" ", "A", "@", "x", " ">>
e_b == <<"b", "@", "x">>
e_c == <<"c", "@", "x">>
OtherPassword == "0therPass"

RegEmails == {e_a, e_A_spaced, e_b, e_c}
RegIdentifiers == RegEmails \cup {IdText(u) : u \in UserIds} \cup {ADMIN_USERNAME}
RegPasswords == {UserPassword, OtherPassword, ADMIN_PASSWORD}

InitReg ==
    /\ ledgerKind = "array"
    /\ ledger = <<>>
    /\ constructed = TRUE
    /\ now = 0
    /\ ret = NoRet
    /\ ConcIdle
    /\ AppIdle

\* the identifiers typed at the login page
TriedIdentifiers == {ADMIN_USERNAME, IdText("00001"), e_A_spaced}

\* the OpenCV build has no cv2.face: a face registration ends in an exception
NextReg ==
    \/ StartApp
    \/ \E e \in RegEmails : RegisterUser(e, UserPassword, "fingerprint", TRUE)
    \/ RegisterUser(e_b, UserPassword, "face", FALSE)
    \/ \E u \in UserIds : DeleteUser(u)
    \/ \E i \in TriedIdentifiers, p \in {UserPassword, ADMIN_PASSWORD} : LoginPassword(i, p)

SpecReg == InitReg /\ [][NextReg]_vars

SameEmail(a, b) == Lower(Strip(a)) = Lower(Strip(b))

NoDuplicateEmails(us) ==
    \A u, v \in DOMAIN us : u # v => ~SameEmail(us[u].email, us[v].email)

\* C11: no two records of the registry, in memory or in users.json, have
\* e-mail addresses that are equal ignoring case and surrounding white space;
\* a register_user call whose address matches a record in that sense returns
\* None and leaves the registry, users.json and the biometric folders as
\* they were.
C11_UniqueEmails ==
    /\ [](NoDuplicateEmails(users) /\ NoDuplicateEmails(usersFile))
    /\ [][(ret'.op = "register_user"
             /\ \E u \in DOMAIN users : SameEmail(users[u].email, ret'.arg)) =>
              /\ ret'.val = "None"
              /\ ret'.exc = "none"
              /\ UNCHANGED <<users, usersFile, bio>>]_vars

C11_Witness ==
    /\ ret.op = "register_user"
    /\ ret.arg = e_A_spaced
    /\ ret.val = "None"
    /\ \E u \in DOMAIN users : users[u].email = e_a

\* C12: every register_user call with an address not in the registry that
\* returns, returns an id that no record of the registry had at that moment,
\* and no record that was in the registry is overwritten; on every path of
\* generate_user_id.
C12_FreshId ==
    [][(ret'.op = "register_user"
          /\ ~\E u \in DOMAIN users : SameEmail(users[u].email, ret'.arg)) =>
           /\ \A u \in DOMAIN users : users'[u] = users[u]
           /\ ret'.exc = "none" =>
                  /\ ret'.val \in UserIds
                  /\ ret'.val \notin DOMAIN users]_vars

\* C13: a register_user call either returns an id with the whole record in
\* users.json, or fails having changed nothing: the registry in memory holds
\* no record of the attempt and no biometric folder was made for it.
C13_AllOrNothing ==
    [][ret'.op = "register_user" =>
          IF ret'.exc = "none" /\ ret'.val \in UserIds
          THEN /\ ret'.val \in DOMAIN usersFile'
               /\ usersFile'[ret'.val] = users'[ret'.val]
               /\ usersFile'[ret'.val].email = Strip(ret'.arg)
          ELSE UNCHANGED <<users, usersFile, bio>>]_vars

LoginOk(u) == {[val |-> TRUE, session |-> u]}
LoginRefused == {[val |-> FALSE, session |-> session]}

\* C14: for every user in the registry, registered with address e and
\* password p under id u, login_password(e, p) and login_password(u, p) return
\* True and set active_session to u, and with any other password either
\* identifier returns False and leaves the session.
C14_IdAndEmailInterchangeable ==
    \A u \in DOMAIN users : \A e \in RegEmails : \A p \in RegPasswords :
        Strip(e) = users[u].email =>
            /\ LoginOutcomes(users, session, e, p) =
                   (IF Sha256(p) = users[u].password THEN LoginOk(u) ELSE LoginRefused)
            /\ LoginOutcomes(users, session, IdText(u), p) =
                   (IF Sha256(p) = users[u].password THEN LoginOk(u) ELSE LoginRefused)

C14_Witness ==
    /\ ret.op = "login_password"
    /\ ret.val = TRUE
    /\ session \in DOMAIN users
    /\ users[session].email = Strip(e_A_spaced)
    /\ Cardinality(DOMAIN users) = 2

\* C15: the administrator is checked before any lookup and is no record:
\* login_password with the admin pair returns True and sets active_session to
\* "Admin" whatever the registry holds; no record has the key "Admin"; and no
\* other identifier or password makes the session "Admin".
C15_AdminOutsideRegistry ==
    /\ LoginOutcomes(users, session, ADMIN_USERNAME, ADMIN_PASSWORD) = LoginOk("Admin")
    /\ "Admin" \notin DOMAIN users \cup DOMAIN usersFile
    /\ \A i \in RegIdentifiers, p \in RegPasswords :
          (i # ADMIN_USERNAME \/ p # ADMIN_PASSWORD) =>
              \A o \in LoginOutcomes(users, session, i, p) :
                  o.session = "Admin" => (~o.val /\ session = "Admin")

C15_Witness ==
    /\ ret.op = "login_password"
    /\ ret.val = TRUE
    /\ session = "Admin"
    /\ Cardinality(DOMAIN users) = 2


(***************************************************************************)
(* The dashboard's handlers and the ledger.                                *)
(***************************************************************************)
LastEntry(entries) == entries[Len(entries)]

\* C16: delete_user removes that user's record and no other from the
\* registry (in memory, and users.json is written from it), leaves every
\* user's EHR folder and load_user_ehr as they were, keeps every ledger entry
\* in its place and appends one entry, USER_DELETED for that user.
C16_DeleteDoesNotCascade ==
    [][ret'.op = "delete_user" =>
          /\ DOMAIN users' = DOMAIN users \ {ret'.arg}
          /\ \A k \in DOMAIN users' : users'[k] = users[k]
          /\ usersFile' = users'
          /\ ehr' = ehr
          /\ \A u \in UserIds : load_user_ehr(ehr'[u]) = load_user_ehr(ehr[u])
          /\ Len(ledger') = Len(ledger) + 1
          /\ IsPrefix(ledger, ledger')
          /\ LastEntry(ledger').action = "USER_DELETED"
          /\ LastEntry(ledger').user_id = ret'.arg]_vars

C16_Witness ==
    /\ ret.op = "delete_user"
    /\ ret.arg \notin DOMAIN users
    /\ ehr[ret.arg].files # {}
    /\ Len(ledger) = 2
    /\ ledger[1].user_id = ret.arg
    /\ ledger[1].action = "EHR_FILE_UPLOADED"

\* C17: an upload_ehr_for_user that goes through appends one entry, with
\* action EHR_FILE_UPLOADED and the user's id, naming a file that is in the
\* user's folder, stored in that step; an upload that is declined by the
\* dashboard's validation or refused by save_ehr_for_user stores nothing and
\* appends nothing.
C17_UploadLogsOnce ==
    [][ret'.op = "upload_ehr_for_user" =>
          IF ret'.val = "logged"
          THEN /\ Len(ledger') = Len(ledger) + 1
               /\ IsPrefix(ledger, ledger')
               /\ LastEntry(ledger').action = "EHR_FILE_UPLOADED"
               /\ LastEntry(ledger').user_id = ret'.arg
               /\ \E g \in ehr'[ret'.arg].files :
                      /\ g.mtime = now
                      /\ LastEntry(ledger').metadata =
                             FileMeta(<<ret'.arg, g.stem, g.suffix>>)
          ELSE /\ ehr' = ehr
               /\ ledger' = ledger]_vars

C17_Witness ==
    /\ ret.op = "upload_ehr_for_user"
    /\ ret.val = "raised"
    /\ ret.exc = "ValueError"
    /\ Len(ledger) = 1
    /\ ledger[1].action = "EHR_FILE_UPLOADED"
    /\ ledger[1].user_id = ret.arg
    /\ Cardinality(ehr[ret.arg].files) = 1


(***************************************************************************)
(* The EHR repository on its own: files are chosen, saved for a user and   *)
(* listed while the clock advances.                                        *)
(***************************************************************************)
OtherJson == File("file", "b", sfx_json, JsonContent(0, ExactRequired(Str(w_x))))
\* a file named like GoodJson with other content
RevisedJson == File("file", "a", sfx_json, JsonContent(0, Obj(<<Pair(w_name, Str(w_x))>>)))
EhrFiles == {GoodJson, RevisedJson, OtherJson, ExeFile}

InitEhr ==
    /\ ledgerKind = "array"
    /\ ledger = <<>>
    /\ constructed = FALSE
    /\ now = 0
    /\ ret = NoRet
    /\ ConcIdle
    /\ AppIdle

\* the file the next save is called with
SelectFile(f) ==
    /\ vfile' = f
    /\ ret' = [op |-> "select", arg |-> "", exc |-> "none", val |-> <<>>]
    /\ UNCHANGED <<ledgerVars, now, concVars, ehr, hasPyPDF2, authVars>>

LoadUserEhrCall(user_id) ==
    /\ \E q \in load_user_ehr(ehr[user_id]) :
           ret' = [op |-> "load_user_ehr", arg |-> user_id, exc |-> "none", val |-> q]
    /\ UNCHANGED <<ledgerVars, now, concVars, appVars, authVars>>

NextEhr ==
    \/ Tick
    \/ \E f \in EhrFiles : SelectFile(f)
    \/ \E u \in UserIds : SaveCall(u, vfile)
    \/ \E u \in UserIds : LoadUserEhrCall(u)

SpecEhr == InitEhr /\ [][NextEhr]_vars

Ascending(q) == \A i, j \in DOMAIN q : i < j => q[i].mtime <= q[j].mtime

ListsFolder(q, folder) ==
    /\ Len(q) = Cardinality(folder.files)
    /\ {q[i] : i \in DOMAIN q} = folder.files

\* C18: right after save_ehr_for_user(u, f) has returned, every list
\* load_user_ehr(u) can return holds the stored copy of f under its path,
\* holds each file of u's folder once, and is in ascending order of
\* modification time; when the copy is the only file of the folder the last
\* element of the list is that copy; and every list a load_user_ehr call
\* returns holds the folder's files in ascending order of modification time.
C18_SaveThenList ==
    /\ [][(ret'.op = "save_ehr_for_user" /\ ret'.exc = "none") =>
             \A q \in load_user_ehr(ehr'[ret'.arg]) :
                 /\ \E i \in DOMAIN q :
                        /\ StoredPath(ret'.arg, q[i]) = StoredPath(ret'.arg, vfile)
                        /\ q[i].content = vfile.content
                 /\ ListsFolder(q, ehr'[ret'.arg])
                 /\ Ascending(q)
                 /\ Len(q) = 1 => LastEntry(q) = Stored(vfile, now)]_ehr
    /\ [](ret.op = "load_user_ehr" =>
             /\ ListsFolder(ret.val, ehr[ret.arg])
             /\ Ascending(ret.val))

C18_Witness ==
    /\ ret.op = "save_ehr_for_user"
    /\ ret.exc = "none"
    /\ Cardinality(ehr[ret.arg].files) = 2
    /\ Stored(vfile, now) \in ehr[ret.arg].files
    /\ \E g \in ehr[ret.arg].files : g.mtime < now


(***************************************************************************)
(* Reading the ledger back, and the ledger file found at construction.     *)
(***************************************************************************)
\* the positions of the entries of one user
Selected(entries, user_id) == {i \in DOMAIN entries : entries[i].user_id = user_id}

\* the entries of one user, the k-th of them being the k-th in the file
InAppendOrder(entries, user_id) ==
    [k \in 1..Cardinality(Selected(entries, user_id)) |->
        entries[CHOOSE i \in Selected(entries, user_id) :
                    Cardinality({j \in Selected(entries, user_id) : j <= i}) = k]]

\* C19: get_user_logs(s) returns the entries whose user_id is s, all of them
\* and no other, in the order log_event appended them; and right after a
\* log_event(s, ...) that completed, get_user_logs(s) is one entry longer and
\* its last element is the entry just appended.
C19_UserLogsInAppendOrder ==
    /\ []((ret.op = "get_user_logs" /\ ledgerKind = "array") =>
             /\ ret.exc = "none"
             /\ ret.val = InAppendOrder(ledger, ret.arg))
    /\ [][(ret'.op = "log_event" /\ ret'.exc = "none") =>
             LET before == get_user_logs(ledgerKind, ledger, ret'.arg)
                 after == get_user_logs(ledgerKind', ledger', ret'.arg)
             IN /\ after.exc = "none"
                /\ Len(after.val) = Len(before.val) + 1
                /\ LastEntry(after.val) = LastEntry(ledger')
                /\ LastEntry(after.val).user_id = ret'.arg
                /\ SubSeq(after.val, 1, Len(before.val)) = before.val]_ledger

C19_Witness ==
    /\ ret.op = "get_user_logs"
    /\ Len(ledger) = 3
    /\ ledger[2].user_id # ret.arg
    /\ ret.val = <<ledger[1], ledger[3]>>

\* C20: whatever the ledger file holds when the BlockchainLogger is
\* constructed, after construction the file holds an array of entries, so
\* that log_event does not fail on the file and neither reader fails.
C20_ResetOnCorrupt ==
    constructed =>
        /\ ledgerKind = "array"
        /\ ret.op = "log_event" => ret.exc \in {"none", "TypeError"}
        /\ ret.op \in {"get_user_logs", "get_all_logs"} => ret.exc = "none"


(***************************************************************************)
(* What the ledger records of the operations that change users or files.   *)
(***************************************************************************)
ChangingOps ==
    {"register_user", "delete_user", "upload_ehr_for_user", "admin_upload_ehr", "save_manual"}

\* the user a completed operation is about
Subject(r) == IF r.op = "register_user" THEN r.val ELSE r.arg

\* C21: every completed step of a registration, a deletion, an upload (through the
\* dashboard or through admin_upload_ehr) or a manual edit that changes the
\* registry, users.json or a user's EHR folder also appends one ledger entry,
\* whose user_id is the user the operation is about.
C21_EveryChangeLogged ==
    [][(ret'.op \in ChangingOps /\ ret'.exc = "none") =>
          /\ Len(ledger') = Len(ledger) + 1
          /\ LastEntry(ledger').user_id = Subject(ret')]_<<users, usersFile, ehr>>


(***************************************************************************)
(* Who may call the administrator's operations.                            *)
(***************************************************************************)
AdminOps == {"upload_ehr_for_user", "delete_user", "admin_upload_ehr"}

\* C22: an administrator's operation (an EHR upload for a user, a deletion)
\* called while active_session is a user's id or None ends with
\* PermissionError and leaves the registry, users.json, the EHR folders and
\* the ledger as they were.
C22_AdminOnly ==
    [][(ret'.op \in AdminOps /\ session # "Admin") =>
          /\ ret'.exc = "PermissionError"
          /\ UNCHANGED <<users, usersFile, ehr, ledger>>]_<<users, usersFile, ehr, ledger>>


(***************************************************************************)
(* Face capture: capture_and_save_face_samples and the capture_face_sample *)
(* calls it makes, one statement at a time.                                *)
(*   capPc "idle"    not called, or returned                               *)
(*         "outer"   at the test of  while saved_count < samples           *)
(*         "opening" in capture_face_sample, before cv2.VideoCapture(0)    *)
(*         "preview" in capture_face_sample's  while True  loop            *)
(*         "done"    returned (saved_count, saved_paths)                   *)
(***************************************************************************)
Samples == 5
Cameras == {"closed", "noface", "working"}

InitCapture ==
    /\ ledgerKind = "array"
    /\ ledger = <<>>
    /\ constructed = TRUE
    /\ now = 0
    /\ ret = NoRet
    /\ pc = [p \in {} |-> "idle"]
    /\ localBlock = [p \in {} |-> <<>>]
    /\ localLedger = [p \in {} |-> <<>>]
    /\ overlaid = [p \in {} |-> FALSE]
    /\ capPc = "idle"
    /\ camera \in Cameras
    /\ saved_count = 0
    /\ AppIdle

\* capture_and_save_face_samples(user_id, samples=5) is entered: lines 81-86
CaptureBegin(user_id) ==
    /\ capPc \in {"idle", "done"}
    /\ capPc' = "outer"
    /\ saved_count' = 0
    /\ bio' = bio \cup {user_id}
    /\ ret' = [op |-> "capture_and_save_face_samples", arg |-> user_id,
               exc |-> "none", val |-> <<>>]
    /\ UNCHANGED <<ledgerVars, now, pc, localBlock, localLedger, overlaid, camera,
                   appVars, users, usersFile, session, label_map>>

\* line 88: the loop test; line 89 calls capture_face_sample, line 101 returns
CaptureLoopTest ==
    /\ capPc = "outer"
    /\ capPc' = IF saved_count < Samples THEN "opening" ELSE "done"
    /\ UNCHANGED <<ledgerVars, now, ret, pc, localBlock, localLedger, overlaid, camera,
                   saved_count, appVars, authVars>>

\* capture_face_sample lines 32-35: a camera that cannot be opened gives None,
\* and the caller's loop continues (lines 90-94)
CaptureOpen ==
    /\ capPc = "opening"
    /\ capPc' = IF camera = "closed" THEN "outer" ELSE "preview"
    /\ UNCHANGED <<ledgerVars, now, ret, pc, localBlock, localLedger, overlaid, camera,
                   saved_count, appVars, authVars>>

\* capture_face_sample lines 38-68: the user presses c or q.  With a face in
\* the frame c returns the cropped image, which the caller saves and counts
\* (lines 95-98); without one, and on q, None is returned and the caller's
\* loop continues.
CaptureKey(face) ==
    /\ capPc = "preview"
    /\ face => camera = "working"
    /\ capPc' = "outer"
    /\ saved_count' = IF face THEN saved_count + 1 ELSE saved_count
    /\ UNCHANGED <<ledgerVars, now, ret, pc, localBlock, localLedger, overlaid, camera,
                   appVars, authVars>>

NextCapture ==
    \/ Tick
    \/ \E u \in UserIds : CaptureBegin(u)
    \/ CaptureLoopTest
    \/ CaptureOpen
    \/ \E face \in BOOLEAN : CaptureKey(face)

SpecCapture == InitCapture /\ [][NextCapture]_vars

\* every statement of the running capture is eventually executed, and a user
\* in front of a working camera eventually presents a face
SpecCaptureFair ==
    /\ SpecCapture
    /\ WF_vars(CaptureLoopTest)
    /\ WF_vars(CaptureOpen)
    /\ WF_vars(\E face \in BOOLEAN : CaptureKey(face))
    /\ SF_vars(CaptureKey(TRUE))

\* C23: a face capture that was started on a camera that cannot be opened,
\* or that never shows a face, eventually returns.
C23_CaptureReturns ==
    (capPc = "outer" /\ camera \in {"closed", "noface"}) ~> (capPc = "done")


(***************************************************************************)
(* Two concurrent log_event calls: what is in the file when both are done. *)
(***************************************************************************)
\* the entries the two callers found in the file
FoundEntries == {i \in DOMAIN ledger : ledger[i].action = "USER_DELETED"}

\* C24: while two log_event calls run on the same file the file is never
\* empty or half written (it always parses to the array), and once both have
\* completed it holds the block of each of them and is two entries longer
\* than the callers found it.
C24_SerializedAppends ==
    /\ ledgerKind = "array"
    /\ (pc["P1"] = "done" /\ pc["P2"] = "done") =>
           /\ \A p \in Procs : \E i \in DOMAIN ledger : ledger[i] = Hashed(localBlock[p])
           /\ Len(ledger) = Cardinality(FoundEntries) + 2


(***************************************************************************)
(* Plain-text candidates and the keywords as the specification spells them *)
(***************************************************************************)
CanonicalKeywords == {w_name, w_address, w_genotype, w_blood_group_spaced}

IsTextFile(f) == f.status = "file" /\ Lower(f.suffix) \in {sfx_txt, sfx_md, sfx_csv}

\* C25: for a .txt, .md or .csv file validate_ehr_file returns true exactly
\* when at least two of the keywords name, address, genotype, blood group are
\* substrings, in any letter case, of the first 8192 characters of the file.
C25_TextKeywords ==
    (ret.op = "validate_ehr_file" /\ IsTextFile(vfile)) =>
        ret.val = (Cardinality({kw \in CanonicalKeywords :
                                   IsSubstring(kw, Lower(ReadText(vfile.content, ReadLimit)))})
                       >= 2)


(***************************************************************************)
(* What a save leaves of the source file and of the other stored files.    *)
(***************************************************************************)
\* C26: a save_ehr_for_user(u, f) that returns leaves the source f as it was,
\* leaves every other user's folder and every file of u with another name as
\* they were, and leaves in u's folder exactly one file with f's name, which
\* has f's content; nothing else is added.
C26_CopyNotMove ==
    [][(ret'.op = "save_ehr_for_user" /\ ret'.exc = "none") =>
          /\ vfile' = vfile
          /\ vfile'.status = "file"
          /\ \A u \in UserIds \ {ret'.arg} : ehr'[u] = ehr[u]
          /\ \A g \in ehr[ret'.arg].files : ~SameName(g, vfile) => g \in ehr'[ret'.arg].files
          /\ \A g \in ehr'[ret'.arg].files : SameName(g, vfile) => g = Stored(vfile, now)
          /\ Stored(vfile, now) \in ehr'[ret'.arg].files
          /\ ehr'[ret'.arg].files \subseteq ehr[ret'.arg].files \cup {Stored(vfile, now)}
      ]_<<ehr, vfile>>

C26_Witness ==
    /\ ret.op = "save_ehr_for_user"
    /\ ret.exc = "none"
    /\ vfile = RevisedJson
    /\ now = 1
    /\ ehr[ret.arg].files = {Stored(RevisedJson, 1), Stored(OtherJson, 0)}
    /\ \E u \in UserIds \ {ret.arg} : ehr[u].files = {Stored(GoodJson, 0)}


(***************************************************************************)
(* What a new user inherits, and who can hold the session.                 *)
(***************************************************************************)
\* facial.predict_face: the user id the recognizer answers with, "None" when
\* there is no trained model, no face in the frame or no match near enough
predict_face(lm) == lm \cup {NoSession}

\* AuthSystem.login_facial
LoginFacial ==
    /\ constructed
    /\ \E user_id \in predict_face(label_map) :
          IF user_id = NoSession \/ user_id \notin DOMAIN users
          THEN /\ ret' = [op |-> "login_facial", arg |-> "", exc |-> "none", val |-> NoSession]
               /\ UNCHANGED session
          ELSE /\ session' = user_id
               /\ ret' = [op |-> "login_facial", arg |-> "", exc |-> "none", val |-> user_id]
    /\ UNCHANGED <<ledgerVars, now, concVars, appVars, users, usersFile, bio, label_map>>

\* LoginPage.handle_face_login, up to its call of on_login_success
HandleFaceLogin ==
    /\ constructed
    /\ \E user_id \in predict_face(label_map) :
          IF user_id = NoSession
          THEN /\ ret' = [op |-> "handle_face_login", arg |-> "", exc |-> "none",
                          val |-> NoSession]
               /\ UNCHANGED session
          ELSE /\ session' = user_id
               /\ ret' = [op |-> "handle_face_login", arg |-> "", exc |-> "none",
                          val |-> user_id]
    /\ UNCHANGED <<ledgerVars, now, concVars, appVars, users, usersFile, bio, label_map>>

\* the records login_fingerprint's loop can stop at: those with a fingerprint
\* file (the file is made at registration and never removed)
FingerprintMatches(us) == {uid \in DOMAIN us : us[uid].fingerprint_path # NoPath}

\* AuthSystem.login_fingerprint: the loop stops at the first such record of
\* the dict, which this model takes to be any of them
LoginFingerprint ==
    /\ constructed
    /\ IF FingerprintMatches(users) = {}
       THEN /\ ret' = [op |-> "login_fingerprint", arg |-> "", exc |-> "none",
                       val |-> NoSession]
            /\ UNCHANGED session
       ELSE \E uid \in FingerprintMatches(users) :
               /\ session' = uid
               /\ ret' = [op |-> "login_fingerprint", arg |-> "", exc |-> "none",
                          val |-> uid]
    /\ UNCHANGED <<ledgerVars, now, concVars, appVars, users, usersFile, bio, label_map>>

\* the methods class DashboardPage defines
DashboardMethods ==
    {"enable_admin_mode", "refresh_admin_table", "upload_ehr_for_user",
     "admin_download_latest_ehr", "download_all_users_ehr", "delete_user",
     "open_edit_ehr_modal", "view_ehr_modal", "set_user", "render_user_profile",
     "_download_file", "refresh_user_log", "_show_full_log_entry",
     "_validate_ehr_object", "_extract_text_from_file", "open_blockchain_overview",
     "logout"}

\* user_id.lower(): ids are digit strings, or "Admin"
LowerId(user_id) == IF user_id = "Admin" THEN "admin" ELSE user_id

\* MainApp.on_login_success: the methods of the dashboard it calls, in order,
\* before show_frame("DashboardPage")
OnLoginSuccessCalls(user_id, us) ==
    IF LowerId(user_id) = "admin"
    THEN <<"enable_admin_mode", "load_blockchain_logs", "set_welcome_message">>
    ELSE IF user_id \in DOMAIN us
    THEN <<"set_user", "update_user_view", "set_welcome_message">>
    ELSE <<"set_welcome_message">>

\* a call of a method the object does not have raises AttributeError
RaisesAttributeError(calls) == \E i \in DOMAIN calls : calls[i] \notin DashboardMethods

\* the user id a handler passes to on_login_success after the call that just
\* completed: a login that succeeded, or a registration that returned an id
PassedToOnLoginSuccess ==
    IF ret.op = "login_password" THEN (IF ret.val THEN {session} ELSE {})
    ELSE IF ret.op \in {"login_facial", "handle_face_login", "login_fingerprint"}
    THEN {ret.val} \ {NoSession}
    ELSE IF ret.op = "register_user" THEN {ret.val} \cap UserIds
    ELSE {}

\* MainApp.on_login_success(user_id); ret.val is the frame on top afterwards
OnLoginSuccess ==
    /\ constructed
    /\ \E user_id \in PassedToOnLoginSuccess :
          ret' = [op |-> "on_login_success", arg |-> user_id,
                  exc |-> IF RaisesAttributeError(OnLoginSuccessCalls(user_id, users))
                          THEN "AttributeError" ELSE "none",
                  val |-> IF RaisesAttributeError(OnLoginSuccessCalls(user_id, users))
                          THEN "LoginPage" ELSE "DashboardPage"]
    /\ UNCHANGED <<ledgerVars, now, concVars, appVars, authVars>>

\* every way to sign in, with one user who registers a face and one who
\* registers a fingerprint
NextLogin ==
    \/ StartApp
    \/ RegisterUser(e_a, UserPassword, "face", TRUE)
    \/ RegisterUser(e_b, UserPassword, "fingerprint", TRUE)
    \/ \E u \in UserIds : DeleteUser(u)
    \/ \E i \in {ADMIN_USERNAME, e_a}, p \in {UserPassword, ADMIN_PASSWORD} :
          LoginPassword(i, p)
    \/ LoginFacial
    \/ HandleFaceLogin
    \/ LoginFingerprint
    \/ Logout
    \/ OnLoginSuccess

SpecLogin == InitReg /\ [][NextLogin]_vars

\* C28: every step that changes active_session sets it to None, to "Admin"
\* or to the id of a user who is in the registry at that moment.
C28_SessionOfRegisteredUser ==
    [][session' \in {NoSession, "Admin"} \cup DOMAIN users']_session

\* C27: at the moment register_user returns a new id, that id has no EHR file
\* and no ledger entry.
C27_FreshHistory ==
    [][(ret'.op = "register_user" /\ ret'.exc = "none" /\ ret'.val \in UserIds) =>
          /\ load_user_ehr(ehr'[ret'.val]) = {<<>>}
          /\ get_user_logs(ledgerKind', ledger', ret'.val).val = <<>>]_<<users, usersFile>>


(***************************************************************************)
(* The dashboard's check of an upload against the repository's validator.  *)
(***************************************************************************)
\* C29: an upload_ehr_for_user whose own check of the file passed is never
\* refused by save_ehr_for_user: the handler does not end with ValueError.
C29_PrecheckCoversValidator ==
    ret.op = "upload_ehr_for_user" => ret.exc # "ValueError"


(***************************************************************************)
(* From a successful login to the dashboard.                               *)
(***************************************************************************)
\* C30: every on_login_success call made after a successful login or a
\* registration returns without an exception and leaves the DashboardPage
\* frame on top.
C30_LoginReachesDashboard ==
    ret.op = "on_login_success" => (ret.exc = "none" /\ ret.val = "DashboardPage")

====
